---- MODULE Spec2Model ----
(***************************************************************************)
(* Model of graphics/graphics_robot.py: the joints of a robot arm          *)
(* (DefaultJoint and its variants) and the chain that holds them (Robot).  *)
(*                                                                         *)
(* Numbers.  Vectors are triples of integers.  The unit of length is the   *)
(* side of the default box graphic (0.1 in the source), so that every      *)
(* magnitude the code computes is an integer for the vectors used here.    *)
(* Angles are counted in quarter turns (pi/2): pi is 2 and 2*pi is 4, and  *)
(* a rotation by a whole number of quarter turns about a frame axis maps   *)
(* integer vectors to integer vectors exactly.                             *)
(*                                                                         *)
(* Scope.  Joints are built with the default graphic (graphic_object is    *)
(* None) and with distinct origin and tip.                                 *)
(*                                                                         *)
(* The module also models the Swift backend                                *)
(* (roboticstoolbox/backend/Swift/Swift.py): the robots and shapes added   *)
(* to a launched environment and the time step over them.  There, joint    *)
(* coordinates and poses are counted in thousandths of their unit, joint   *)
(* velocities in units per second and dt in milliseconds, so that          *)
(* q + qd * (dt / 1000) is the integer q + qd * dt.                        *)
(***************************************************************************)
EXTENDS Integers, Sequences, FiniteSets, TLC

VARIABLES joints, robot, last, ops, swift

vars == <<joints, robot, last, ops, swift>>

(***************************************************************************)
(* Bounds of the model                                                     *)
(***************************************************************************)
\* angles passed by callers range over -MaxAngle..MaxAngle quarter turns
MaxAngle == 3
\* number of joints handed to Robot
NumJoints == 3
\* number of calls made on a joint that is not part of a chain
MaxOps == 3
\* number of calls made on a chain and its joints
MaxChainOps == 2
\* largest magnitude Mag looks for
MaxMag == 5

(***************************************************************************)
(* Program constants                                                       *)
(***************************************************************************)
\* width and height of the default box (0.1), the unit of length
BoxSide == 1
\* pi and 2*pi in quarter turns
Pi == 2

TwoPi == 2 * Pi

(***************************************************************************)
(* vpython vectors                                                         *)
(***************************************************************************)
vector(x, y, z) == <<x, y, z>>

VAdd(a, b) == <<a[1] + b[1], a[2] + b[2], a[3] + b[3]>>

VSub(a, b) == <<a[1] - b[1], a[2] - b[2], a[3] - b[3]>>

Dot(a, b) == a[1] * b[1] + a[2] * b[2] + a[3] * b[3]

Cross(a, b) ==
    <<a[2] * b[3] - a[3] * b[2],
      a[3] * b[1] - a[1] * b[3],
      a[1] * b[2] - a[2] * b[1]>>

Abs(n) == IF n < 0 THEN -n ELSE n

\* vector.mag (getter); the vectors of the model have integer magnitudes
Mag(v) ==
    IF v[2] = 0 /\ v[3] = 0 THEN Abs(v[1])
    ELSE IF v[1] = 0 /\ v[3] = 0 THEN Abs(v[2])
    ELSE IF v[1] = 0 /\ v[2] = 0 THEN Abs(v[3])
    ELSE CHOOSE n \in 0..MaxMag : n * n = Dot(v, v)

\* vector.mag = m (setter): keeps the direction, a zero vector stays zero
SetMag(v, m) ==
    LET n == Mag(v)
    IN  IF n = 0 THEN v
        ELSE <<(v[1] * m) \div n, (v[2] * m) \div n, (v[3] * m) \div n>>

\* cosine and sine of q quarter turns
Cos(q) == CASE q % 4 = 0 -> 1 [] q % 4 = 1 -> 0 [] q % 4 = 2 -> -1 [] q % 4 = 3 -> 0

Sin(q) == CASE q % 4 = 0 -> 0 [] q % 4 = 1 -> 1 [] q % 4 = 2 -> 0 [] q % 4 = 3 -> -1

\* vector.rotate(angle, axis): right-handed rotation of v about axis k
Rotate(v, q, k) ==
    LET n == Mag(k)
        kxv == Cross(k, v)
        kv == Dot(k, v)
        c == Cos(q)
        s == Sin(q)
    IN  <<v[1] * c + (kxv[1] * s) \div n + (k[1] * kv * (1 - c)) \div (n * n),
          v[2] * c + (kxv[2] * s) \div n + (k[2] * kv * (1 - c)) \div (n * n),
          v[3] * c + (kxv[3] * s) \div n + (k[3] * kv * (1 - c)) \div (n * n)>>

Max3(a, b, c) ==
    IF a >= b /\ a >= c THEN a ELSE IF b >= c THEN b ELSE c

\* graphics.common_functions.wrap_to_pi: reduce modulo 2*pi into (-pi, pi]
wrap_to_pi(a) ==
    LET m == a % TwoPi
    IN  IF m > Pi THEN m - TwoPi ELSE m

(***************************************************************************)
(* DefaultJoint                                                            *)
(***************************************************************************)
XAxis == vector(1, 0, 0)
YAxis == vector(0, 1, 0)
ZAxis == vector(0, 0, 1)

\* __update_reference_frame without its last line: z_vector keeps the
\* magnitude of the cross product
update_reference_frame_z_unscaled(J) ==
    LET x == SetMag(J.gobj_axis, J.length)
        y == SetMag(J.gobj_up, J.length)
    IN  [J EXCEPT !.gobj_axis = x, !.x_vector = x,
                  !.gobj_up = y, !.y_vector = y,
                  !.z_vector = Cross(x, y)]

\* DefaultJoint.__update_reference_frame.  x_vector and y_vector are the
\* graphic's own axis and up vectors, so setting their magnitude sets the
\* graphic's as well.
update_reference_frame(J) ==
    LET x == SetMag(J.gobj_axis, J.length)
        y == SetMag(J.gobj_up, J.length)
        z == SetMag(Cross(x, y), J.length)
    IN  [J EXCEPT !.gobj_axis = x, !.x_vector = x,
                  !.gobj_up = y, !.y_vector = y,
                  !.z_vector = z]

\* DefaultJoint.__init__ with graphic_object = None (__set_graphic builds a
\* box along the world x axis), followed by the subclass constructor, which
\* stores rotation_axis (RotationalJoint only).
NewJoint(kind, from, to, axis, rotation_axis) ==
    LET extent == Mag(VSub(to, from))
        J0 == [kind |-> kind,
               rotation_axis |-> rotation_axis,
               connect_from |-> from,
               connect_to |-> to,
               dir_pos |-> from,
               dir_axis |-> VSub(to, from),
               x_vector |-> axis,
               y_vector |-> vector(0, 0, 0),
               z_vector |-> vector(0, 0, 0),
               x_rotation |-> 0,
               y_rotation |-> 0,
               z_rotation |-> 0,
               gobj_pos |-> vector(0, 0, 0),
               gobj_axis |-> vector(1, 0, 0),
               gobj_up |-> vector(0, 1, 0),
               gobj_visible |-> TRUE,
               visible |-> TRUE,
               length |-> Max3(extent, BoxSide, BoxSide),
               ref_pos |-> to,
               ref_axis |-> axis,
               ref_up |-> vector(0, 1, 0),
               ref_visible |-> TRUE]
    IN  update_reference_frame(J0)

\* draw_reference_frame showing the reference frame when asked to
draw_reference_frame_shows(J, is_visible) ==
    [J EXCEPT !.ref_visible = is_visible,
              !.ref_pos = J.connect_to,
              !.ref_axis = J.x_vector,
              !.ref_up = J.y_vector]

\* DefaultJoint.draw_reference_frame; the reference frame graphic exists
\* from construction on, so the branch that creates it is never taken
draw_reference_frame(J, is_visible) ==
    [J EXCEPT !.ref_visible = IF is_visible THEN @ ELSE FALSE,
              !.ref_pos = J.connect_to,
              !.ref_axis = J.x_vector,
              !.ref_up = J.y_vector]

\* DefaultJoint.__draw_graphic
draw_graphic(J) ==
    [J EXCEPT !.gobj_pos = J.connect_from,
              !.gobj_axis = J.x_vector,
              !.gobj_up = J.y_vector]

\* update_position without the line that moves connect_to
update_position_tip_stays(J, new_pos) ==
    LET axes_movement == VSub(new_pos, J.connect_from)
        J1 == [J EXCEPT !.connect_from = VAdd(@, axes_movement),
                        !.dir_pos = VAdd(@, axes_movement)]
    IN  draw_graphic(draw_reference_frame(J1, J1.ref_visible))

\* DefaultJoint.update_position
update_position(J, new_pos) ==
    LET axes_movement == VSub(new_pos, J.connect_from)
        J1 == [J EXCEPT !.connect_from = VAdd(@, axes_movement),
                        !.connect_to = VAdd(@, axes_movement),
                        !.dir_pos = VAdd(@, axes_movement)]
    IN  draw_graphic(draw_reference_frame(J1, J1.ref_visible))

\* the else branch taken for the x axis instead of the y axis
AxisBranch_else_x(axis) ==
    IF axis = XAxis THEN "x"
    ELSE IF axis = YAxis THEN "y"
    ELSE IF axis = ZAxis THEN "z"
    ELSE "x"

\* the branch of update_orientation and get_rotation_angle an axis selects
AxisBranch(axis) ==
    IF axis = XAxis THEN "x"
    ELSE IF axis = YAxis THEN "y"
    ELSE IF axis = ZAxis THEN "z"
    ELSE "y"

\* the accumulated rotation left as the plain sum
accumulate_unwrapped(rotation, angle_of_rotation) == rotation + angle_of_rotation

\* the new accumulated rotation of the selected axis
accumulate(rotation, angle_of_rotation) == wrap_to_pi(rotation + angle_of_rotation)

\* compound.rotate(angle, axis, origin): no effect for an angle of 0
gobj_rotate(J, angle, axis, origin) ==
    IF angle = 0 THEN J
    ELSE [J EXCEPT !.gobj_pos = VAdd(origin, Rotate(VSub(@, origin), angle, axis)),
                   !.gobj_axis = Rotate(@, angle, axis),
                   !.gobj_up = Rotate(@, angle, axis)]

\* DefaultJoint.update_orientation
update_orientation(J, angle_of_rotation, axis_of_rotation) ==
    LET b == AxisBranch(axis_of_rotation)
        rotation_axis == CASE b = "x" -> J.x_vector
                           [] b = "y" -> J.y_vector
                           [] b = "z" -> J.z_vector
        J1 == CASE b = "x" -> [J EXCEPT !.x_rotation = accumulate(@, angle_of_rotation)]
                [] b = "y" -> [J EXCEPT !.y_rotation = accumulate(@, angle_of_rotation)]
                [] b = "z" -> [J EXCEPT !.z_rotation = accumulate(@, angle_of_rotation)]
        J2 == gobj_rotate(J1, angle_of_rotation, rotation_axis, J1.connect_from)
        J3 == update_reference_frame(J2)
        J4 == [J3 EXCEPT !.dir_axis = IF angle_of_rotation = 0 THEN @
                                      ELSE Rotate(@, angle_of_rotation, rotation_axis)]
        J5 == [J4 EXCEPT !.connect_to = VAdd(J4.dir_pos, J4.dir_axis)]
    IN  draw_graphic(draw_reference_frame(J5, J5.ref_visible))

\* the statements of update_position in the order the code runs them
update_position_steps ==
    <<"translate", "draw_reference_frame", "draw_graphic">>

\* update_orientation with the redraws moved before the recomputation
update_orientation_steps_redraw_first ==
    <<"select_axis", "rotate_graphic", "draw_reference_frame", "draw_graphic",
      "update_reference_frame", "rotate_tip">>

\* the statements of update_orientation in the order the code runs them
update_orientation_steps ==
    <<"select_axis", "rotate_graphic", "update_reference_frame", "rotate_tip",
      "draw_reference_frame", "draw_graphic">>

\* the statements a call runs (update_position and update_orientation)
StepsOf(op) ==
    CASE op = "update_position" -> update_position_steps
      [] op = "update_orientation" -> update_orientation_steps
      [] OTHER -> << >>

\* a call in progress: the joint, the arguments and the local rotation_axis
Frame(J, angle, axis, pos) ==
    [J |-> J, angle |-> angle, axis |-> axis, pos |-> pos,
     rotation_axis |-> vector(0, 0, 0)]

\* one statement of update_position or update_orientation
Step(s, C) ==
    CASE s = "translate" ->
           LET axes_movement == VSub(C.pos, C.J.connect_from)
           IN  [C EXCEPT !.J = [C.J EXCEPT
                   !.connect_from = VAdd(@, axes_movement),
                   !.connect_to = VAdd(@, axes_movement),
                   !.dir_pos = VAdd(@, axes_movement)]]
      [] s = "select_axis" ->
           LET b == AxisBranch(C.axis)
           IN  (CASE b = "x" -> [C EXCEPT !.rotation_axis = C.J.x_vector,
                                          !.J.x_rotation = accumulate(@, C.angle)]
                  [] b = "y" -> [C EXCEPT !.rotation_axis = C.J.y_vector,
                                          !.J.y_rotation = accumulate(@, C.angle)]
                  [] b = "z" -> [C EXCEPT !.rotation_axis = C.J.z_vector,
                                          !.J.z_rotation = accumulate(@, C.angle)])
      [] s = "rotate_graphic" ->
           [C EXCEPT !.J = gobj_rotate(C.J, C.angle, C.rotation_axis, C.J.connect_from)]
      [] s = "update_reference_frame" ->
           [C EXCEPT !.J = update_reference_frame(C.J)]
      [] s = "rotate_tip" ->
           LET d == IF C.angle = 0 THEN C.J.dir_axis
                    ELSE Rotate(C.J.dir_axis, C.angle, C.rotation_axis)
           IN  [C EXCEPT !.J = [C.J EXCEPT !.dir_axis = d,
                                           !.connect_to = VAdd(C.J.dir_pos, d)]]
      [] s = "draw_reference_frame" ->
           [C EXCEPT !.J = draw_reference_frame(C.J, C.J.ref_visible)]
      [] s = "draw_graphic" ->
           [C EXCEPT !.J = draw_graphic(C.J)]

\* the joint after the statements of steps have run in order
RECURSIVE RunSteps(_, _)
RunSteps(steps, C) ==
    IF steps = << >> THEN C.J
    ELSE RunSteps(Tail(steps), Step(Head(steps), C))

\* set_joint_visibility without its test
set_joint_visibility_unconditional(J, is_visible) ==
    [J EXCEPT !.gobj_visible = is_visible,
              !.ref_visible = is_visible,
              !.visible = is_visible]

\* DefaultJoint.set_joint_visibility
set_joint_visibility(J, is_visible) ==
    IF is_visible # J.visible
    THEN [J EXCEPT !.gobj_visible = is_visible,
                   !.ref_visible = is_visible,
                   !.visible = is_visible]
    ELSE J

\* DefaultJoint.get_connection_to_pos
get_connection_to_pos(J) == J.connect_to

\* DefaultJoint.get_rotation_angle
get_rotation_angle(J, axis) ==
    LET b == AxisBranch(axis)
    IN  CASE b = "x" -> J.x_rotation
          [] b = "y" -> J.y_rotation
          [] b = "z" -> J.z_rotation

(***************************************************************************)
(* RotationalJoint, PrismaticJoint, StaticJoint, Gripper                   *)
(***************************************************************************)
\* the new angle itself taken as the amount to rotate by
angle_diff_absolute(J, new_angle) == wrap_to_pi(new_angle)

\* the amount RotationalJoint.rotate_joint rotates the link by
angle_diff(J, new_angle) ==
    wrap_to_pi(wrap_to_pi(new_angle) - get_rotation_angle(J, J.rotation_axis))

\* every variant rotating like a RotationalJoint
rotate_joint_any_kind(J, new_angle) ==
    update_orientation(J, angle_diff(J, new_angle), J.rotation_axis)

\* rotate_joint of the four variants
rotate_joint(J, new_angle) ==
    IF J.kind = "Rotational"
    THEN update_orientation(J, angle_diff(J, new_angle), J.rotation_axis)
    ELSE J

(***************************************************************************)
(* Robot                                                                   *)
(***************************************************************************)
\* every joint placed at the tip its predecessor had before the pass
position_joints_stale(js, joint_num) ==
    [i \in DOMAIN js |->
        IF i < joint_num THEN js[i]
        ELSE update_position(js[i], get_connection_to_pos(js[i - 1]))]

\* Robot.__position_joints, from joint_num on
RECURSIVE position_joints(_, _)
position_joints(js, joint_num) ==
    IF joint_num > Len(js) THEN js
    ELSE position_joints(
             [js EXCEPT ![joint_num] =
                 update_position(@, get_connection_to_pos(js[joint_num - 1]))],
             joint_num + 1)

\* Robot.__init__: stores the joints and positions them
Robot(js) == position_joints(js, 2)

\* Robot.set_robot_visibility: is_shown is assigned inside the loop over the
\* joints, so a chain without joints keeps its flag
set_robot_visibility(R, js, is_visible) ==
    IF is_visible # R.is_shown /\ Len(js) > 0
    THEN [R EXCEPT !.is_shown = is_visible]
    ELSE R

\* the joints after Robot.set_robot_visibility
set_robot_visibility_joints(R, js, is_visible) ==
    IF is_visible # R.is_shown
    THEN [j \in DOMAIN js |-> set_joint_visibility(js[j], is_visible)]
    ELSE js

\* the joints after Robot.set_reference_visibility
set_reference_visibility(js, is_visible) ==
    [j \in DOMAIN js |-> draw_reference_frame(js[j], is_visible)]

(***************************************************************************)
(* Inputs                                                                  *)
(***************************************************************************)
\* origins of new joints and targets of update_position
Points == {vector(0, 0, 0), vector(1, 0, 0)}

\* tip - origin of new joints
Offsets == {vector(1, 0, 0), vector(2, 1, 2)}

\* angles passed to update_orientation and rotate_joint
Angles == (-MaxAngle)..MaxAngle

\* axis arguments: the three principal directions and others
Principal == {XAxis, YAxis, ZAxis}

NonPrincipal == {vector(1, 1, 0)}

Axes == Principal \cup NonPrincipal

Kinds == {"Rotational", "Prismatic", "Static", "Gripper"}

\* the constructor calls a caller can make: rotation_axis is an argument of
\* RotationalJoint alone (written as the y axis, its default, for the others)
NewJoints ==
    {NewJoint("Rotational", p, VAdd(p, d), XAxis, r) :
        p \in Points, d \in Offsets, r \in Axes} \cup
    {NewJoint(k, p, VAdd(p, d), XAxis, YAxis) :
        k \in Kinds \ {"Rotational"}, p \in Points, d \in Offsets}

\* the joints chains are built from
ChainJoints ==
    {NewJoint("Rotational", p, VAdd(p, d), XAxis, YAxis) :
        p \in Points, d \in Offsets}

\* the angles and axes used on the joints of a chain
ChainAngles == {1}

ChainAxes == {ZAxis}

(***************************************************************************)
(* Swift: the environment's robots and shapes                              *)
(***************************************************************************)
\* float('nan') in a joint limit: a value no coordinate takes
NaN == -1000000

\* np.any(robot.qlim[:, i] != 0) and not np.any(np.isnan(robot.qlim[:, i]))
limits_defined(r, i) ==
    /\ (r.qlim[1][i] # 0 \/ r.qlim[2][i] # 0)
    /\ ~(r.qlim[1][i] = NaN \/ r.qlim[2][i] = NaN)

Min(a, b) == IF a <= b THEN a ELSE b

Max(a, b) == IF a >= b THEN a ELSE b

\* the body of the loop over the joints of a velocity-controlled robot
step_joint(r, i, dt) ==
    LET q == r.q[i] + r.qd[i] * dt
    IN  IF limits_defined(r, i)
        THEN Max(Min(q, r.qlim[2][i]), r.qlim[1][i])
        ELSE q

\* the body of the loop over the robots, for a robot that does not raise
step_robot(r, dt) ==
    IF r.control_type = "v"
    THEN [r EXCEPT !.q = [i \in 1..r.n |-> step_joint(r, i, dt)]]
    ELSE r

\* _step_robots(dt): the robots are stepped in order; the first robot that
\* is neither velocity- nor acceleration-controlled raises ValueError and
\* leaves the robots after it as they were
RECURSIVE step_robots(_, _)
step_robots(robots, dt) ==
    IF robots = << >>
    THEN [robots |-> << >>, raised |-> FALSE]
    ELSE IF Head(robots).control_type \in {"v", "a"}
         THEN LET rest == step_robots(Tail(robots), dt)
              IN  [robots |-> <<step_robot(Head(robots), dt)>> \o rest.robots,
                   raised |-> rest.raised]
         ELSE [robots |-> robots, raised |-> TRUE]

\* _step_shapes(dt): the pose of every shape advances by its velocity
step_shapes(shapes, dt) ==
    [k \in DOMAIN shapes |->
        [shapes[k] EXCEPT
            !.base = [t |-> [c \in 1..3 |-> @.t[c] + shapes[k].v[c] * dt],
                      r |-> [c \in 1..3 |-> @.r[c] + shapes[k].v[c + 3] * dt]]]]

\* launch()
launch == [robots |-> << >>, shapes |-> << >>, called |-> "launch", dt |-> 0,
           result |-> "ok"]

\* add(ob)
add(S, ob) ==
    IF ob.class = "ERobot"
    THEN [S EXCEPT !.robots = Append(@, ob), !.called = "add", !.dt = 0, !.result = "ok"]
    ELSE IF ob.class = "Shape"
         THEN [S EXCEPT !.shapes = Append(@, ob), !.called = "add", !.dt = 0,
                        !.result = "ok"]
         ELSE [S EXCEPT !.called = "add", !.dt = 0, !.result = "ok"]

\* step(dt): _step_robots, then _step_shapes, then _draw_all (which changes
\* no coordinate); an exception of _step_robots ends the call
step(S, dt) ==
    LET R == step_robots(S.robots, dt)
    IN  IF R.raised
        THEN [S EXCEPT !.robots = R.robots, !.called = "step", !.dt = dt,
                       !.result = "ValueError"]
        ELSE [S EXCEPT !.robots = R.robots, !.shapes = step_shapes(@, dt),
                       !.called = "step", !.dt = dt, !.result = "ok"]

\* the control types a robot can have
ControlTypes == {"p", "v", "a"}

ERobot(control_type, q, qd, qlim) ==
    [class |-> "ERobot", control_type |-> control_type, n |-> Len(q), q |-> q, qd |-> qd,
     qlim |-> qlim]

\* robots of one joint at rest at 0 with no, symmetric or partly undefined
\* limits, and a robot of two joints, the second without limits
ERobots ==
    {ERobot(c, <<0>>, <<qd>>, qlim) :
        c \in ControlTypes, qd \in {1, -2},
        qlim \in {<<<<0>>, <<0>>>>, <<<<-60>>, <<60>>>>, <<<<NaN>>, <<60>>>>}}
    \cup {ERobot("v", <<0, 0>>, <<1, -2>>, <<<<-60, 0>>, <<60, 0>>>>)}

Shape(v) ==
    [class |-> "Shape", base |-> [t |-> <<0, 0, 0>>, r |-> <<0, 0, 0>>], v |-> v]

\* a shape at rest and a moving one
Shapes == {Shape(<<0, 0, 0, 0, 0, 0>>), Shape(<<1, 0, 0, 0, 0, 1>>)}

\* time steps in milliseconds, the default among them
Dts == {20, 50}

\* no Swift environment
NoSwift == [robots |-> << >>, shapes |-> << >>, called |-> "none", dt |-> 0,
            result |-> "none"]

NoCall == [op |-> "none", j |-> 0, angle |-> 0, axis |-> vector(0, 0, 0),
           pos |-> vector(0, 0, 0), flag |-> FALSE, steps |-> << >>]

Call(op, j, angle, axis, pos, flag) ==
    [op |-> op, j |-> j, angle |-> angle, axis |-> axis, pos |-> pos, flag |-> flag,
     steps |-> StepsOf(op)]

(***************************************************************************)
(* State: the joints in construction order, the Robot built from them      *)
(* (if any), the last call made and the number of calls made               *)
(***************************************************************************)
NoRobot == [constructed |-> FALSE, is_shown |-> TRUE]

Init ==
    /\ \E n \in 0..NumJoints : joints \in [1..n -> ChainJoints]
    /\ robot = NoRobot
    /\ last = NoCall
    /\ ops = 0
    /\ swift = NoSwift

\* one more call, of at most n
Calls(n) == ops < n /\ ops' = ops + 1

\* Robot(joints)
RobotInit ==
    /\ ~robot.constructed
    /\ joints' = Robot(joints)
    /\ robot' = [constructed |-> TRUE, is_shown |-> TRUE]
    /\ last' = Call("Robot", 0, 0, vector(0, 0, 0), vector(0, 0, 0), FALSE)
    /\ UNCHANGED <<ops, swift>>

\* robot.set_robot_visibility(b)
SetRobotVisibility(b) ==
    /\ robot.constructed
    /\ joints' = set_robot_visibility_joints(robot, joints, b)
    /\ robot' = set_robot_visibility(robot, joints, b)
    /\ last' = Call("set_robot_visibility", 0, 0, vector(0, 0, 0), vector(0, 0, 0), b)
    /\ UNCHANGED swift

\* robot.set_reference_visibility(b)
SetReferenceVisibility(b) ==
    /\ robot.constructed
    /\ joints' = set_reference_visibility(joints, b)
    /\ last' = Call("set_reference_visibility", 0, 0, vector(0, 0, 0), vector(0, 0, 0), b)
    /\ UNCHANGED <<robot, swift>>

\* joints[j].update_position(p)
UpdatePosition(j, p) ==
    /\ joints' = [joints EXCEPT ![j] = update_position(@, p)]
    /\ last' = Call("update_position", j, 0, vector(0, 0, 0), p, FALSE)
    /\ UNCHANGED <<robot, swift>>

\* joints[j].update_orientation(a, axis)
UpdateOrientation(j, a, axis) ==
    /\ joints' = [joints EXCEPT ![j] = update_orientation(@, a, axis)]
    /\ last' = Call("update_orientation", j, a, axis, vector(0, 0, 0), FALSE)
    /\ UNCHANGED <<robot, swift>>

\* joints[j].rotate_joint(a)
RotateJoint(j, a) ==
    /\ joints' = [joints EXCEPT ![j] = rotate_joint(@, a)]
    /\ last' = Call("rotate_joint", j, a, vector(0, 0, 0), vector(0, 0, 0), FALSE)
    /\ UNCHANGED <<robot, swift>>

\* joints[j].set_joint_visibility(b)
SetJointVisibility(j, b) ==
    /\ joints' = [joints EXCEPT ![j] = set_joint_visibility(@, b)]
    /\ last' = Call("set_joint_visibility", j, 0, vector(0, 0, 0), vector(0, 0, 0), b)
    /\ UNCHANGED <<robot, swift>>

\* joints[j].draw_reference_frame(b)
DrawReferenceFrame(j, b) ==
    /\ joints' = [joints EXCEPT ![j] = draw_reference_frame(@, b)]
    /\ last' = Call("draw_reference_frame", j, 0, vector(0, 0, 0), vector(0, 0, 0), b)
    /\ UNCHANGED <<robot, swift>>

\* a chain and its joints: the caller builds the Robot, then calls it and,
\* before and after, its joints
Next ==
    \/ RobotInit
    \/ \E b \in BOOLEAN : Calls(MaxChainOps) /\ SetRobotVisibility(b)
    \/ \E b \in BOOLEAN : Calls(MaxChainOps) /\ SetReferenceVisibility(b)
    \/ \E j \in DOMAIN joints, p \in Points : Calls(MaxChainOps) /\ UpdatePosition(j, p)
    \/ \E j \in DOMAIN joints, a \in ChainAngles, axis \in ChainAxes :
           Calls(MaxChainOps) /\ UpdateOrientation(j, a, axis)
    \/ \E j \in DOMAIN joints, a \in ChainAngles : Calls(MaxChainOps) /\ RotateJoint(j, a)
    \/ \E j \in DOMAIN joints, b \in BOOLEAN : Calls(MaxChainOps) /\ SetJointVisibility(j, b)
    \/ \E j \in DOMAIN joints, b \in BOOLEAN : Calls(MaxChainOps) /\ DrawReferenceFrame(j, b)

Spec == Init /\ [][Next]_vars

\* a single joint of any kind, not part of a chain
InitJoint ==
    /\ joints \in [1..1 -> NewJoints]
    /\ robot = NoRobot
    /\ last = NoCall
    /\ ops = 0
    /\ swift = NoSwift

NextJoint ==
    \/ \E p \in Points : Calls(MaxOps) /\ UpdatePosition(1, p)
    \/ \E a \in Angles, axis \in Axes : Calls(MaxOps) /\ UpdateOrientation(1, a, axis)
    \/ \E a \in Angles : Calls(MaxOps) /\ RotateJoint(1, a)
    \/ \E b \in BOOLEAN : Calls(MaxOps) /\ SetJointVisibility(1, b)
    \/ \E b \in BOOLEAN : Calls(MaxOps) /\ DrawReferenceFrame(1, b)

SpecJoint == InitJoint /\ [][NextJoint]_vars

\* a single joint, for as few calls as are made on a chain
NextJointShort ==
    \/ \E p \in Points : Calls(MaxChainOps) /\ UpdatePosition(1, p)
    \/ \E a \in Angles, axis \in Axes : Calls(MaxChainOps) /\ UpdateOrientation(1, a, axis)
    \/ \E a \in Angles : Calls(MaxChainOps) /\ RotateJoint(1, a)
    \/ \E b \in BOOLEAN : Calls(MaxChainOps) /\ SetJointVisibility(1, b)
    \/ \E b \in BOOLEAN : Calls(MaxChainOps) /\ DrawReferenceFrame(1, b)

SpecJointShort == InitJoint /\ [][NextJointShort]_vars

\* env.add(ob)
SwiftAdd(ob) ==
    /\ swift' = add(swift, ob)
    /\ UNCHANGED <<joints, robot, last>>

\* env.step(dt)
SwiftStep(dt) ==
    /\ swift' = step(swift, dt)
    /\ UNCHANGED <<joints, robot, last>>

\* a launched Swift environment
InitSwift ==
    /\ joints = << >>
    /\ robot = NoRobot
    /\ last = NoCall
    /\ ops = 0
    /\ swift = launch

NextSwift ==
    \/ \E ob \in ERobots \cup Shapes : Calls(MaxOps) /\ SwiftAdd(ob)
    \/ \E dt \in Dts : Calls(MaxOps) /\ SwiftStep(dt)

SpecSwift == InitSwift /\ [][NextSwift]_vars

(***************************************************************************)
(* Properties                                                              *)
(***************************************************************************)
\* the joint the last call was made on, before and after a step
Before == joints[last'.j]

After == joints'[last'.j]

Offset(J) == VSub(J.connect_to, J.connect_from)

Contiguous(js) ==
    \A i \in 2..Len(js) : js[i].connect_from = js[i - 1].connect_to

\* C1: once the Robot is built, after every call on any of its joints, each
\* joint's origin is the tip of the joint before it.
ChainContiguity == robot.constructed => Contiguous(joints)

\* C2: building a Robot leaves every joint after the first with its origin on
\* the tip of the joint before it, keeps every joint's tip - origin, and does
\* not move the first joint.
ConstructionGluesJoints ==
    [][(~robot.constructed /\ robot'.constructed) =>
          /\ Len(joints') = Len(joints)
          /\ Contiguous(joints')
          /\ \A i \in DOMAIN joints : Offset(joints'[i]) = Offset(joints[i])
          /\ Len(joints) > 0 => joints'[1] = joints[1]]_vars

\* a Robot was just built from three joints, and the cascade moved the third
\* beyond every point a joint was built at
ConstructionGluesJointsWitness ==
    /\ last.op = "Robot"
    /\ Len(joints) = 3
    /\ joints[2].connect_from = joints[1].connect_to
    /\ joints[3].connect_from = joints[2].connect_to
    /\ joints[3].connect_from \notin Points
    /\ joints[3].connect_from # joints[1].connect_to

\* C3: after rotate_joint(theta) on a RotationalJoint, get_rotation_angle of
\* its rotation axis is wrap_to_pi(theta), whatever was accumulated before;
\* a second rotate_joint(theta) would rotate by 0 and leave the angle there.
RotateJointReachesAngle ==
    \A j \in DOMAIN joints :
        (last.op = "rotate_joint" /\ last.j = j /\ joints[j].kind = "Rotational") =>
            /\ get_rotation_angle(joints[j], joints[j].rotation_axis)
                   = wrap_to_pi(last.angle)
            /\ angle_diff(joints[j], last.angle) = 0
            /\ get_rotation_angle(rotate_joint(joints[j], last.angle),
                                  joints[j].rotation_axis) = wrap_to_pi(last.angle)

\* rotate_joint was the third call on a RotationalJoint that had rotations
\* accumulated about two other axes, with an angle that wraps
RotateJointReachesAngleWitness ==
    /\ Len(joints) = 1
    /\ last.op = "rotate_joint"
    /\ joints[1].kind = "Rotational"
    /\ joints[1].rotation_axis = ZAxis
    /\ wrap_to_pi(last.angle) # last.angle
    /\ joints[1].z_rotation = wrap_to_pi(last.angle)
    /\ joints[1].x_rotation # 0
    /\ joints[1].y_rotation # 0

\* C4: update_position(new_pos) puts the origin at new_pos, moves the tip and
\* the tracking arrow by the same vector, and leaves length, the accumulated
\* rotations, the three axes and the visibility flags as they were.
UpdatePositionTranslates ==
    [][last'.op = "update_position" =>
          LET mv == VSub(last'.pos, Before.connect_from)
          IN  /\ After.connect_from = last'.pos
              /\ After.connect_to = VAdd(Before.connect_to, mv)
              /\ After.dir_pos = VAdd(Before.dir_pos, mv)
              /\ After.dir_axis = Before.dir_axis
              /\ Offset(After) = Offset(Before)
              /\ After.length = Before.length
              /\ After.x_rotation = Before.x_rotation
              /\ After.y_rotation = Before.y_rotation
              /\ After.z_rotation = Before.z_rotation
              /\ After.x_vector = Before.x_vector
              /\ After.y_vector = Before.y_vector
              /\ After.z_vector = Before.z_vector
              /\ After.visible = Before.visible
              /\ After.gobj_visible = Before.gobj_visible
              /\ After.ref_visible = Before.ref_visible]_vars

\* a joint that was turned and whose reference frame was hidden has just
\* been moved
UpdatePositionTranslatesWitness ==
    /\ Len(joints) = 1
    /\ last.op = "update_position"
    /\ joints[1].connect_from = last.pos
    /\ joints[1].z_rotation # 0
    /\ ~joints[1].ref_visible
    /\ joints[1].visible

InRange(r) == -Pi < r /\ r <= Pi

\* C5: the three accumulated rotations of every joint are always within
\* (-pi, pi], and update_orientation changes only the one of the axis it
\* selects.
RotationsStayWrapped ==
    /\ [](\A j \in DOMAIN joints :
             /\ InRange(joints[j].x_rotation)
             /\ InRange(joints[j].y_rotation)
             /\ InRange(joints[j].z_rotation))
    /\ [][last'.op = "update_orientation" =>
             /\ last'.axis # XAxis => After.x_rotation = Before.x_rotation
             /\ last'.axis \in {XAxis, ZAxis} => After.y_rotation = Before.y_rotation
             /\ last'.axis # ZAxis => After.z_rotation = Before.z_rotation]_vars

\* a rotation has been accumulated up to pi, where one more quarter turn wraps
RotationsStayWrappedWitness ==
    /\ Len(joints) = 1
    /\ last.op = "update_orientation"
    /\ last.axis = XAxis
    /\ last.angle > Pi
    /\ joints[1].x_rotation = -1
    /\ joints[1].y_rotation = Pi

Orthogonal(J) ==
    /\ Dot(J.x_vector, J.y_vector) = 0
    /\ Dot(J.y_vector, J.z_vector) = 0
    /\ Dot(J.x_vector, J.z_vector) = 0

\* C6: the three axes of every joint are always pairwise orthogonal and each
\* as long as the joint's length, and no call changes the length.
AxesOrthogonalOfLength ==
    /\ [](\A j \in DOMAIN joints :
             /\ Orthogonal(joints[j])
             /\ Dot(joints[j].x_vector, joints[j].x_vector) = joints[j].length * joints[j].length
             /\ Dot(joints[j].y_vector, joints[j].y_vector) = joints[j].length * joints[j].length
             /\ Dot(joints[j].z_vector, joints[j].z_vector) = joints[j].length * joints[j].length)
    /\ [][\A j \in DOMAIN joints : joints'[j].length = joints[j].length]_vars

\* a joint longer than the unit has been turned about two axes and moved
AxesOrthogonalOfLengthWitness ==
    /\ Len(joints) = 1
    /\ joints[1].length > 1
    /\ joints[1].x_rotation = 1
    /\ joints[1].z_rotation = 1
    /\ last.op = "update_position"

\* C7: the x axis of every joint points from its origin to its tip: the tip
\* is the origin plus the x direction times the distance between them.
XAxisPointsToTip ==
    \A j \in DOMAIN joints :
        Offset(joints[j]) = SetMag(joints[j].x_vector, Mag(Offset(joints[j])))

\* C8: update_orientation with an axis that is none of the three principal
\* directions acts as with the y axis: it adds the angle, wrapped, to
\* y_rotation alone and turns the joint about its y_vector; and
\* get_rotation_angle of such an axis is y_rotation.
NonPrincipalAxisActsAsY ==
    [][(last'.op = "update_orientation" /\ last'.axis \notin Principal) =>
          /\ After = update_orientation(Before, last'.angle, YAxis)
          /\ After.y_rotation = wrap_to_pi(Before.y_rotation + last'.angle)
          /\ After.x_rotation = Before.x_rotation
          /\ After.z_rotation = Before.z_rotation
          /\ After.y_vector = Before.y_vector
          /\ After.x_vector = Rotate(Before.x_vector, last'.angle, Before.y_vector)
          /\ After.connect_to =
                 VAdd(Before.connect_from,
                      Rotate(Offset(Before), last'.angle, Before.y_vector))
          /\ get_rotation_angle(After, last'.axis) = After.y_rotation]_vars

\* a joint turned about its x and y axes by calls that named a non-principal
\* axis last
NonPrincipalAxisActsAsYWitness ==
    /\ Len(joints) = 1
    /\ last.op = "update_orientation"
    /\ last.axis \in NonPrincipal
    /\ last.angle = 1
    /\ joints[1].y_rotation = Pi
    /\ joints[1].x_rotation = 1

\* C9: rotate_joint on a PrismaticJoint, a StaticJoint or a Gripper changes
\* nothing of the joint.
RotateJointNoOp ==
    [][(last'.op = "rotate_joint" /\ Before.kind # "Rotational") =>
          joints' = joints]_vars

\* rotate_joint was called on a Gripper that had been turned before
RotateJointNoOpWitness ==
    /\ Len(joints) = 1
    /\ last.op = "rotate_joint"
    /\ last.angle = 1
    /\ joints[1].kind = "Gripper"
    /\ joints[1].y_rotation = Pi

\* C10: set_joint_visibility(flag) changes nothing when flag is the joint's
\* visible flag; otherwise it sets the visible flag, the graphic's visibility
\* and the reference frame's visibility to flag.
SetJointVisibilityOnChange ==
    [][last'.op = "set_joint_visibility" =>
          IF last'.flag = Before.visible
          THEN joints' = joints
          ELSE /\ After.visible = last'.flag
               /\ After.gobj_visible = last'.flag
               /\ After.ref_visible = last'.flag]_vars

\* the first call on a joint hid it, its graphic and its reference frame
SetJointVisibilityOnChangeWitness ==
    /\ Len(joints) = 1
    /\ ops = 1
    /\ last.op = "set_joint_visibility"
    /\ ~last.flag
    /\ ~joints[1].visible
    /\ ~joints[1].gobj_visible
    /\ ~joints[1].ref_visible

\* C11: after set_reference_visibility(v), the reference frame of every joint
\* of the chain is shown exactly if v is true, whatever was shown before.
ReferenceVisibilityBroadcast ==
    last.op = "set_reference_visibility" =>
        \A j \in DOMAIN joints : joints[j].ref_visible = last.flag

\* the kinds of statement: those that change the geometry, the recomputation
\* of the reference frame, and the redraws
Mutations == {"translate", "select_axis", "rotate_graphic", "rotate_tip"}

Redraws == {"draw_reference_frame", "draw_graphic"}

Position(steps, s) == CHOOSE k \in 1..Len(steps) : steps[k] = s

Has(steps, s) == \E k \in 1..Len(steps) : steps[k] = s

RobotVisibilityReachesAll ==
    [][last'.op = "set_robot_visibility" =>
          /\ robot'.is_shown = last'.flag
          /\ \A j \in DOMAIN joints : joints'[j].visible = last'.flag
          /\ last'.flag = robot.is_shown => joints' = joints]_vars

Advanced(r, i, dt) == r.q[i] + r.qd[i] * dt

\* C15: Swift.step over the added robots completes without raising when
\* every robot's control_type is one of 'p', 'v' or 'a' and raises ValueError
\* only for a control_type outside that set; for a 'v' robot each q[i] is
\* advanced by qd[i] * dt / 1000 and, when the joint's limits are defined,
\* ends within [qlim[0, i], qlim[1, i]]
StepAcceptsPVA ==
    [][swift'.called = "step" =>
        /\ (\A k \in DOMAIN swift.robots :
                swift.robots[k].control_type \in {"p", "v", "a"})
               => swift'.result = "ok"
        /\ swift'.result = "ValueError"
               => \E k \in DOMAIN swift.robots :
                      swift.robots[k].control_type \notin {"p", "v", "a"}
        /\ swift'.result = "ok"
               => \A k \in DOMAIN swift.robots :
                      LET r == swift.robots[k]
                          q == swift'.robots[k].q
                      IN  r.control_type = "v" =>
                              \A i \in 1..r.n :
                                  IF limits_defined(r, i)
                                  THEN /\ r.qlim[1][i] <= q[i]
                                       /\ q[i] <= r.qlim[2][i]
                                       /\ (/\ r.qlim[1][i] <= Advanced(r, i, swift'.dt)
                                           /\ Advanced(r, i, swift'.dt) <= r.qlim[2][i])
                                              => q[i] = Advanced(r, i, swift'.dt)
                                  ELSE q[i] = Advanced(r, i, swift'.dt)]_vars

====
